---- MODULE Spec2Model ----
(***************************************************************************)
(* A model of two parts of the RocketMQ broker:                            *)
(*   - processor/pop_message_processor.rs: the correlation-id builders of  *)
(*     PopMessageProcessor, TimedLock and QueueLockManager;                *)
(*   - failover/escape_bridge.rs: EscapeBridge::put_message and            *)
(*     transform_send_result2put_result.                                   *)
(* Rust strings are sequences of one-character strings, so that format!    *)
(* is a concatenation of characters.                                       *)
(***************************************************************************)
EXTENDS Integers, Sequences, FiniteSets

VARIABLES
    \* QueueLockManager.expired_local_cache: HashMap<CheetahString, TimedLock>
    cache,
    \* the value get_current_millis() returns
    now,
    \* (task, key) pairs whose try_lock returned true and that have not unlocked
    holding,
    \* the last completed QueueLockManager call, with what it returned
    ev,
    \* per key, what the calls so far say about its lease:
    \*   "lock_ok"  the last call on the key was a try_lock that returned true,
    \*              and no clean_unused_locks ran since;
    \*   "refused"  as "lock_ok", followed only by try_locks on the key, which
    \*              returned false;
    \*   "unlock"   the last try_lock / unlock on the key was an unlock;
    \*   "other"    none of these
    kev,
    \* per key: a clean_unused_locks removed its entry while the lease was held
    evicted_held,
    \* per task, where it stands in a QueueLockManager call: "idle" outside a
    \* call, "waiting" at expired_local_cache.lock().await, "locked" with the
    \* MutexGuard in hand
    pc,
    \* per task, the call it is in: op and key
    call,
    \* the owner of the tokio Mutex of expired_local_cache, or "free"
    mutex,
    \* per key, the try_lock calls that ran since the last unlock of the key or
    \* the last clean_unused_locks: whether the lease was free then, how many
    \* returned true, how many false, and whether one ran while another
    \* try_lock on the key was waiting
    burst,
    \* the task spawned by QueueLockManager::start: the clock value at which
    \* its sleep ends, and the QueueLockSize it logged last (-1: none yet)
    sweeper,
    \* per key, the passes of that task the lease has outlasted since it was
    \* acquired, without an unlock in between
    survived,
    \* EscapeBridge.broker_config: broker_id, enable_slave_acting_master,
    \* enable_remote_escape
    broker_config,
    \* the last EscapeBridge::put_message call: its argument, how it ended and
    \* what it handed to the store and to the remote forward
    put,
    \* per task, its last call into PopMessageProcessor and how it ended
    pop,
    \* the last call of each correlation-id builder: argument and string
    ack_id, batch_ack_id, ck_id,
    \* the last two calls made in a row of one builder (an id builder or
    \* build_lock_key): both arguments and both strings
    pair

stepVars == <<pc, call, mutex, burst>>

sweepVars == <<sweeper, survived>>

lockVars == <<cache, now, holding, ev, kev, evicted_held, pc, call, mutex,
              burst, sweeper, survived>>

bridgeVars == <<broker_config, put>>

popVars == <<pop>>

codecVars == <<ack_id, batch_ack_id, ck_id, pair>>

vars == <<cache, now, holding, ev, kev, evicted_held, pc, call, mutex,
          burst, sweeper, survived, broker_config, put, pop, ack_id, batch_ack_id, ck_id, pair>>

----------------------------------------------------------------------------
(* Bounds of the model *)

\* the clock runs 0..MaxTime
MaxTime == 3
\* clean_unused_locks is called with used_expire_millis in 0..MaxThreshold
MaxThreshold == 2

----------------------------------------------------------------------------
(* Strings and format! *)

\* PopAckConstants::SPLIT
SPLIT == <<"@">>

DigitChars == <<"0", "1", "2", "3", "4", "5", "6", "7", "8", "9">>

RECURSIVE Digits(_)
Digits(n) ==
    IF n < 10 THEN <<DigitChars[n + 1]>>
    ELSE Digits(n \div 10) \o <<DigitChars[(n % 10) + 1]>>

\* Display of a signed integer, as "{}" renders i32 / i64
Display(n) == IF n < 0 THEN <<"-">> \o Digits(0 - n) ELSE Digits(n)

----------------------------------------------------------------------------
(* TimedLock *)

TimedLock_new(t) == [lock |-> FALSE, lock_time |-> t]

\* TimedLock::try_lock that stores true without comparing
TimedLock_try_lock_blind(l, t) ==
    [ok |-> TRUE, lock |-> [lock |-> TRUE, lock_time |-> t]]

\* TimedLock::try_lock that stores the time whether or not it succeeds
TimedLock_try_lock_touch(l, t) ==
    IF l.lock = FALSE
    THEN [ok |-> TRUE, lock |-> [lock |-> TRUE, lock_time |-> t]]
    ELSE [ok |-> FALSE, lock |-> [l EXCEPT !.lock_time = t]]

\* compare_exchange(false, true): on success the time is stored
TimedLock_try_lock(l, t) ==
    IF l.lock = FALSE
    THEN [ok |-> TRUE, lock |-> [lock |-> TRUE, lock_time |-> t]]
    ELSE [ok |-> FALSE, lock |-> l]

\* TimedLock::unlock that leaves the flag as it is
TimedLock_unlock_keeps(l) == l

TimedLock_unlock(l) == [l EXCEPT !.lock = FALSE]

is_locked(l) == l.lock

get_lock_time(l) == l.lock_time

----------------------------------------------------------------------------
(* QueueLockManager *)

Tasks == {"t1", "t2"}

TopicA == <<"t", "p">>
GroupG == <<"g">>

\* the (topic, consumer_group, queue_id) triples the tasks work on
LockTriples == {<<TopicA, GroupG, 0>>, <<TopicA, GroupG, 1>>}

\* the key with no SPLIT between consumer_group and queue_id
build_lock_key_unsplit(topic, consumer_group, queue_id) ==
    topic \o SPLIT \o consumer_group \o Display(queue_id)

build_lock_key(topic, consumer_group, queue_id) ==
    topic \o SPLIT \o consumer_group \o SPLIT \o Display(queue_id)

Keys == {build_lock_key(tr[1], tr[2], tr[3]) : tr \in LockTriples}

NoKey == <<>>

\* QueueLockManager::new(): an empty map
EmptyCache == [k \in {} |-> TimedLock_new(0)]

\* try_lock_with_key that goes through cache.insert(key, TimedLock::new())
try_lock_with_key_reinsert(c, key, t) ==
    [ok |-> TRUE,
     cache |-> [k \in (DOMAIN c) \cup {key} |->
                   IF k = key THEN [lock |-> TRUE, lock_time |-> t] ELSE c[k]]]

\* try_lock_with_key that only inserts the lease of a key it does not find
try_lock_with_key_insert_only(c, key, t) ==
    IF key \in DOMAIN c
    THEN [ok |-> TimedLock_try_lock(c[key], t).ok,
          cache |-> [c EXCEPT ![key] = TimedLock_try_lock(c[key], t).lock]]
    ELSE [ok |-> FALSE,
          cache |-> [k \in (DOMAIN c) \cup {key} |->
                        IF k = key THEN TimedLock_new(t) ELSE c[k]]]

\* try_lock_with_key with one lease for the whole registry: refused while any
\* entry is held
try_lock_with_key_global(c, key, t) ==
    LET c1 == IF key \in DOMAIN c THEN c
              ELSE [k \in DOMAIN c \cup {key} |->
                       IF k = key THEN TimedLock_new(t) ELSE c[k]]
    IN IF \E k \in DOMAIN c1 : is_locked(c1[k])
       THEN [ok |-> FALSE, cache |-> c1]
       ELSE [ok |-> TRUE,
             cache |-> [c1 EXCEPT ![key] = [lock |-> TRUE, lock_time |-> t]]]

\* cache.entry(key).or_insert(TimedLock::new()) followed by lock.try_lock()
try_lock_with_key(c, key, t) ==
    LET entry == IF key \in DOMAIN c THEN c[key] ELSE TimedLock_new(t)
        r == TimedLock_try_lock(entry, t)
    IN [ok |-> r.ok,
        cache |-> [k \in (DOMAIN c) \cup {key} |->
                      IF k = key THEN r.lock ELSE c[k]]]

\* unlock_with_key that releases nothing
unlock_with_key_noop(c, key) == c

\* unlock_with_key that goes through entry(key).or_insert
unlock_with_key_inserts(c, key) ==
    [k \in (DOMAIN c) \cup {key} |->
        IF k # key THEN c[k]
        ELSE IF key \in DOMAIN c THEN TimedLock_unlock(c[key])
        ELSE TimedLock_new(0)]

\* if let Some(lock) = cache.get(&key) { lock.unlock() }
unlock_with_key(c, key) ==
    IF key \in DOMAIN c
    THEN [c EXCEPT ![key] = TimedLock_unlock(c[key])]
    ELSE c

\* the retain predicate with < for <=
Retained_strict(l, t, used_expire_millis) ==
    t - get_lock_time(l) < used_expire_millis

\* the predicate of cache.retain: the entry is kept.  t is the clock value
\* read for the entry; it is never below lock_time while the clock does not
\* go backwards, so the u64 subtraction is the integer one
Retained(l, t, used_expire_millis) == t - get_lock_time(l) <= used_expire_millis

\* clean_unused_locks: count is taken before retain; reads[k] is the clock value
\* the closure reads for entry k
clean_unused_locks(c, reads, used_expire_millis) ==
    LET keep == {k \in DOMAIN c : Retained(c[k], reads[k], used_expire_millis)}
    IN [count |-> Cardinality(DOMAIN c),
        cache |-> [k \in keep |-> c[k]]]

----------------------------------------------------------------------------
(* History of calls *)

NoEv == [op |-> "none", key |-> NoKey, res |-> FALSE, before |-> "other",
         th |-> 0, reads |-> EmptyCache,
         pre |-> EmptyCache, count |-> 0, panic |-> FALSE]

\* the tasks that contend for the registry mutex
Callers == Tasks \cup {"t3"}

NoCall == [op |-> "none", key |-> NoKey]

\* no try_lock ran yet on a key that has no entry
NoBurst == [free |-> TRUE, wins |-> 0, losses |-> 0, overlap |-> FALSE]

StepInit ==
    /\ pc = [t \in Callers |-> "idle"]
    /\ call = [t \in Callers |-> NoCall]
    /\ mutex = "free"
    /\ burst = [k \in Keys |-> NoBurst]

\* the Duration::from_secs(60) of start, in milliseconds
SWEEP_SLEEP_MILLIS == 60000

\* the used_expire_millis start passes to clean_unused_locks
SWEEP_EXPIRE_MILLIS == 60000

\* start is called at time 0: the first sleep ends SWEEP_SLEEP_MILLIS later
SweepInit ==
    /\ sweeper = [wake |-> SWEEP_SLEEP_MILLIS, logged |-> -1]
    /\ survived = [k \in Keys |-> 0]

LockInit ==
    /\ cache = EmptyCache
    /\ now = 0
    /\ holding = {}
    /\ ev = NoEv
    /\ kev = [k \in Keys |-> "other"]
    /\ evicted_held = [k \in Keys |-> FALSE]
    /\ StepInit
    /\ SweepInit

\* QueueLockManager::try_lock by task t
TryLock(t, topic, consumer_group, queue_id) ==
    LET key == build_lock_key(topic, consumer_group, queue_id)
        r == try_lock_with_key(cache, key, now)
    IN /\ cache' = r.cache
       /\ holding' = IF r.ok THEN holding \cup {<<t, key>>} ELSE holding
       /\ ev' = [NoEv EXCEPT !.op = "try_lock", !.key = key, !.res = r.ok,
                             !.before = kev[key]]
       /\ kev' = [kev EXCEPT ![key] =
                     IF r.ok THEN "lock_ok"
                     ELSE IF kev[key] \in {"lock_ok", "refused"} THEN "refused"
                     ELSE "other"]
       /\ survived' = IF r.ok THEN [survived EXCEPT ![key] = 0] ELSE survived
       /\ UNCHANGED <<now, evicted_held, stepVars, sweeper, bridgeVars,
                      popVars, codecVars>>

\* QueueLockManager::unlock by task t
Unlock(t, topic, consumer_group, queue_id) ==
    LET key == build_lock_key(topic, consumer_group, queue_id)
    IN /\ cache' = unlock_with_key(cache, key)
       /\ holding' = holding \ {<<t, key>>}
       /\ ev' = [NoEv EXCEPT !.op = "unlock", !.key = key,
                             !.before = kev[key]]
       /\ kev' = [kev EXCEPT ![key] = "unlock"]
       /\ survived' = [survived EXCEPT ![key] = 0]
       /\ UNCHANGED <<now, evicted_held, stepVars, sweeper, bridgeVars,
                      popVars, codecVars>>

Max(S) == CHOOSE x \in S : \A y \in S : y <= x

\* QueueLockManager::clean_unused_locks; the clock may advance between the
\* reads the retain closure makes
Clean(used_expire_millis, reads) ==
    LET r == clean_unused_locks(cache, reads, used_expire_millis)
    IN /\ cache' = r.cache
       /\ now' = Max({now} \cup {reads[k] : k \in DOMAIN cache})
       /\ ev' = [NoEv EXCEPT !.op = "clean", !.th = used_expire_millis,
                             !.reads = reads, !.pre = cache, !.count = r.count]
       /\ kev' = [k \in Keys |->
                     IF kev[k] \in {"lock_ok", "refused"} THEN "other"
                     ELSE kev[k]]
       /\ evicted_held' = [k \in Keys |->
              evicted_held[k] \/ (k \in DOMAIN cache /\ k \notin DOMAIN r.cache
                                  /\ is_locked(cache[k]))]
       /\ UNCHANGED <<holding, stepVars, sweepVars, bridgeVars,
                      popVars, codecVars>>

\* time passes
Tick ==
    /\ now < MaxTime
    /\ now' = now + 1
    /\ UNCHANGED <<cache, holding, ev, kev, evicted_held>>
    /\ UNCHANGED <<stepVars, sweepVars, bridgeVars,
                      popVars, codecVars>>

LockNext ==
    \/ \E t \in Tasks, tr \in LockTriples : TryLock(t, tr[1], tr[2], tr[3])
    \/ \E t \in Tasks, tr \in LockTriples : Unlock(t, tr[1], tr[2], tr[3])
    \/ \E th \in 0..MaxThreshold :
         \E reads \in [DOMAIN cache -> now..MaxTime] : Clean(th, reads)
    \/ Tick

----------------------------------------------------------------------------
(* The calls of QueueLockManager, step by step *)

\* a task makes at most MaxBurst try_lock calls on a key between two resets
\* of the key's count
MaxBurst == 3

\* the triples the contending tasks work on
MutexTriples == {<<TopicA, GroupG, 0>>}

\* the lease of key is free: no entry, or an entry that is not held
Free(c, key) == key \notin DOMAIN c \/ ~is_locked(c[key])

\* try_lock up to expired_local_cache.lock().await
CallTryLock(t, topic, consumer_group, queue_id) ==
    LET key == build_lock_key(topic, consumer_group, queue_id)
    IN /\ pc[t] = "idle"
       /\ burst[key].wins + burst[key].losses < MaxBurst
       /\ pc' = [pc EXCEPT ![t] = "waiting"]
       /\ call' = [call EXCEPT ![t] = [op |-> "try_lock", key |-> key]]
       /\ UNCHANGED <<cache, now, holding, ev, kev, evicted_held, mutex, burst,
                      sweepVars, bridgeVars,
                      popVars, codecVars>>

\* unlock up to expired_local_cache.lock().await
CallUnlock(t, topic, consumer_group, queue_id) ==
    LET key == build_lock_key(topic, consumer_group, queue_id)
    IN /\ pc[t] = "idle"
       /\ pc' = [pc EXCEPT ![t] = "waiting"]
       /\ call' = [call EXCEPT ![t] = [op |-> "unlock", key |-> key]]
       /\ UNCHANGED <<cache, now, holding, ev, kev, evicted_held, mutex, burst,
                      sweepVars, bridgeVars,
                      popVars, codecVars>>

\* clean_unused_locks up to expired_local_cache.lock().await
CallClean(t) ==
    /\ pc[t] = "idle"
    /\ pc' = [pc EXCEPT ![t] = "waiting"]
    /\ call' = [call EXCEPT ![t] = [op |-> "clean", key |-> NoKey]]
    /\ UNCHANGED <<cache, now, holding, ev, kev, evicted_held, mutex, burst,
                   sweepVars, bridgeVars,
                      popVars, codecVars>>

\* lock().await completes: the mutex was free
AcquireMutex(t) ==
    /\ pc[t] = "waiting"
    /\ mutex = "free"
    /\ mutex' = t
    /\ pc' = [pc EXCEPT ![t] = "locked"]
    /\ UNCHANGED <<cache, now, holding, ev, kev, evicted_held, call, burst,
                   sweepVars, bridgeVars,
                      popVars, codecVars>>

\* some other task waits in a try_lock on the same key
Contended(t, key) ==
    \E u \in Callers \ {t} :
        pc[u] = "waiting" /\ call[u].op = "try_lock" /\ call[u].key = key

\* the rest of try_lock_with_key that keeps the MutexGuard after a success
RunTryLock_keeps_guard(t) ==
    LET key == call[t].key
        r == try_lock_with_key(cache, key, now)
    IN /\ pc[t] = "locked" /\ call[t].op = "try_lock"
       /\ cache' = r.cache
       /\ holding' = IF r.ok THEN holding \cup {<<t, key>>} ELSE holding
       /\ burst' = [burst EXCEPT ![key] =
              [@ EXCEPT !.wins = IF r.ok THEN @ + 1 ELSE @,
                        !.losses = IF r.ok THEN @ ELSE @ + 1,
                        !.overlap = @ \/ Contended(t, key)]]
       /\ mutex' = IF r.ok THEN t ELSE "free"
       /\ pc' = [pc EXCEPT ![t] = "idle"]
       /\ call' = [call EXCEPT ![t] = NoCall]
       /\ UNCHANGED <<now, ev, kev, evicted_held, sweepVars, bridgeVars,
                      popVars, codecVars>>

\* the rest of try_lock_with_key: entry(key).or_insert, TimedLock::try_lock,
\* and the MutexGuard dropped on return
RunTryLock(t) ==
    LET key == call[t].key
        r == try_lock_with_key(cache, key, now)
    IN /\ pc[t] = "locked" /\ call[t].op = "try_lock"
       /\ cache' = r.cache
       /\ holding' = IF r.ok THEN holding \cup {<<t, key>>} ELSE holding
       /\ burst' = [burst EXCEPT ![key] =
              [@ EXCEPT !.wins = IF r.ok THEN @ + 1 ELSE @,
                        !.losses = IF r.ok THEN @ ELSE @ + 1,
                        !.overlap = @ \/ Contended(t, key)]]
       /\ mutex' = "free"
       /\ pc' = [pc EXCEPT ![t] = "idle"]
       /\ call' = [call EXCEPT ![t] = NoCall]
       /\ UNCHANGED <<now, ev, kev, evicted_held, sweepVars, bridgeVars,
                      popVars, codecVars>>

\* the rest of unlock_with_key
RunUnlock(t) ==
    LET key == call[t].key
        c == unlock_with_key(cache, key)
    IN /\ pc[t] = "locked" /\ call[t].op = "unlock"
       /\ cache' = c
       /\ holding' = holding \ {<<t, key>>}
       /\ burst' = [burst EXCEPT ![key] = NoBurst]
       /\ mutex' = "free"
       /\ pc' = [pc EXCEPT ![t] = "idle"]
       /\ call' = [call EXCEPT ![t] = NoCall]
       /\ UNCHANGED <<now, ev, kev, evicted_held, sweepVars, bridgeVars,
                      popVars, codecVars>>

\* the rest of clean_unused_locks, called with used_expire_millis
RunClean(t, used_expire_millis, reads) ==
    LET r == clean_unused_locks(cache, reads, used_expire_millis)
    IN /\ pc[t] = "locked" /\ call[t].op = "clean"
       /\ cache' = r.cache
       /\ now' = Max({now} \cup {reads[k] : k \in DOMAIN cache})
       /\ burst' = [k \in Keys |-> [NoBurst EXCEPT !.free = Free(r.cache, k)]]
       /\ mutex' = "free"
       /\ pc' = [pc EXCEPT ![t] = "idle"]
       /\ call' = [call EXCEPT ![t] = NoCall]
       /\ UNCHANGED <<holding, ev, kev, evicted_held, sweepVars, bridgeVars,
                      popVars, codecVars>>

MutexNext ==
    \/ \E t \in Callers, tr \in MutexTriples :
         CallTryLock(t, tr[1], tr[2], tr[3])
    \/ \E t \in Callers, tr \in MutexTriples :
         CallUnlock(t, tr[1], tr[2], tr[3])
    \/ \E t \in Callers : CallClean(t)
    \/ \E t \in Callers : AcquireMutex(t)
    \/ \E t \in Callers : RunTryLock(t)
    \/ \E t \in Callers : RunUnlock(t)
    \/ \E t \in Callers, th \in 0..MaxThreshold :
         \E reads \in [DOMAIN cache -> now..MaxTime] : RunClean(t, th, reads)

\* the same calls with two tasks contending
MutexNextTasks ==
    \/ \E t \in Tasks, tr \in MutexTriples :
         CallTryLock(t, tr[1], tr[2], tr[3])
    \/ \E t \in Tasks, tr \in MutexTriples :
         CallUnlock(t, tr[1], tr[2], tr[3])
    \/ \E t \in Tasks : CallClean(t)
    \/ \E t \in Tasks : AcquireMutex(t)
    \/ \E t \in Tasks : RunTryLock(t)
    \/ \E t \in Tasks : RunUnlock(t)
    \/ \E t \in Tasks, th \in 0..MaxThreshold :
         \E reads \in [DOMAIN cache -> now..MaxTime] : RunClean(t, th, reads)

----------------------------------------------------------------------------
(* The task spawned by QueueLockManager::start *)

\* the clock is looked at every ClockStep milliseconds, up to MaxSweepTime
ClockStep == 60000

MaxSweepTime == 180000

\* the clock values from t on
ClockFrom(t) == {t + i * ClockStep : i \in 0..((MaxSweepTime - t) \div ClockStep)}

\* one turn of a loop that does not sleep
SweeperPass_no_sleep(reads) ==
    LET r == clean_unused_locks(cache, reads, SWEEP_EXPIRE_MILLIS)
        end == Max({now} \cup {reads[k] : k \in DOMAIN cache})
    IN /\ cache' = r.cache
       /\ now' = end
       /\ sweeper' = [wake |-> end + SWEEP_SLEEP_MILLIS, logged |-> r.count]
       /\ survived' = [k \in Keys |->
              IF k \in DOMAIN r.cache /\ is_locked(cache[k])
              THEN survived[k] + 1
              ELSE survived[k]]
       /\ ev' = [NoEv EXCEPT !.op = "clean", !.th = SWEEP_EXPIRE_MILLIS,
                             !.reads = reads, !.pre = cache, !.count = r.count]
       /\ kev' = [k \in Keys |->
                     IF kev[k] \in {"lock_ok", "refused"} THEN "other"
                     ELSE kev[k]]
       /\ evicted_held' = [k \in Keys |->
              evicted_held[k] \/ (k \in DOMAIN cache /\ k \notin DOMAIN r.cache
                                  /\ is_locked(cache[k]))]
       /\ UNCHANGED <<holding, stepVars, bridgeVars, popVars, codecVars>>

\* one turn of the loop of start, the sleep over: clean_unused_locks(60000)
\* and info!("QueueLockSize={}", count); the next sleep starts after it
SweeperPass(reads) ==
    LET r == clean_unused_locks(cache, reads, SWEEP_EXPIRE_MILLIS)
        end == Max({now} \cup {reads[k] : k \in DOMAIN cache})
    IN /\ now >= sweeper.wake
       /\ cache' = r.cache
       /\ now' = end
       /\ sweeper' = [wake |-> end + SWEEP_SLEEP_MILLIS, logged |-> r.count]
       /\ survived' = [k \in Keys |->
              IF k \in DOMAIN r.cache /\ is_locked(cache[k])
              THEN survived[k] + 1
              ELSE survived[k]]
       /\ ev' = [NoEv EXCEPT !.op = "clean", !.th = SWEEP_EXPIRE_MILLIS,
                             !.reads = reads, !.pre = cache, !.count = r.count]
       /\ kev' = [k \in Keys |->
                     IF kev[k] \in {"lock_ok", "refused"} THEN "other"
                     ELSE kev[k]]
       /\ evicted_held' = [k \in Keys |->
              evicted_held[k] \/ (k \in DOMAIN cache /\ k \notin DOMAIN r.cache
                                  /\ is_locked(cache[k]))]
       /\ UNCHANGED <<holding, stepVars, bridgeVars, popVars, codecVars>>

\* time passes
TickStep ==
    /\ now + ClockStep <= MaxSweepTime
    /\ now' = now + ClockStep
    /\ UNCHANGED <<cache, holding, ev, kev, evicted_held>>
    /\ UNCHANGED <<stepVars, sweepVars, bridgeVars, popVars, codecVars>>

\* the tasks lock and unlock while the spawned task sweeps
SweepNext ==
    \/ \E t \in Tasks, tr \in LockTriples : TryLock(t, tr[1], tr[2], tr[3])
    \/ \E t \in Tasks, tr \in LockTriples : Unlock(t, tr[1], tr[2], tr[3])
    \/ \E reads \in [DOMAIN cache -> ClockFrom(now)] : SweeperPass(reads)
    \/ TickStep

----------------------------------------------------------------------------
(* clean_unused_locks under a wall clock *)

\* a - b on u64: the difference, or 2^64 - (b - a) when b is above a
\* (wrapped is TRUE and value is b - a)
wrapping_sub(a, b) ==
    IF a >= b THEN [wrapped |-> FALSE, value |-> a - b]
    ELSE [wrapped |-> TRUE, value |-> b - a]

\* the subtraction of the retain closure leaves the range of u64
Underflows(l, t) == wrapping_sub(t, get_lock_time(l)).wrapped

\* the retain predicate in a build without overflow checks: a wrapped age is
\* 2^64 - value, above every threshold of the model
Retained_wrapping(l, t, used_expire_millis) ==
    LET age == wrapping_sub(t, get_lock_time(l))
    IN ~age.wrapped /\ age.value <= used_expire_millis

\* the builds: with overflow checks the subtraction panics, without it wraps
Builds == {"overflow_checks", "wrapping"}

\* the entries of c that retain has decided on (done) are kept or removed by
\* the predicate, the others are as they were
Swept(c, done, reads, used_expire_millis) ==
    LET keep == {k \in DOMAIN c :
                    k \in done =>
                        Retained_wrapping(c[k], reads[k], used_expire_millis)}
    IN [k \in keep |-> c[k]]

\* clean_unused_locks when get_current_millis is the wall clock: reads[k] is
\* any clock value.  In a build with overflow checks the closure panics on
\* the first entry whose age underflows, after retain has decided on the
\* entries in done; the guard is dropped and no count is returned.
CleanWall(used_expire_millis, reads, build, done) ==
    LET under == {k \in DOMAIN cache : Underflows(cache[k], reads[k])}
        panics == build = "overflow_checks" /\ under # {}
        c1 == Swept(cache, done, reads, used_expire_millis)
    IN /\ IF panics THEN done \subseteq (DOMAIN cache) \ under
                    ELSE done = DOMAIN cache
       /\ cache' = c1
       /\ ev' = [NoEv EXCEPT !.op = "clean",
                             !.th = used_expire_millis,
                             !.reads = reads, !.pre = cache,
                             !.count = IF panics THEN 0
                                       ELSE Cardinality(DOMAIN cache),
                             !.panic = panics]
       /\ kev' = [k \in Keys |->
                     IF kev[k] \in {"lock_ok", "refused"} THEN "other"
                     ELSE kev[k]]
       /\ evicted_held' = [k \in Keys |->
              evicted_held[k] \/ (k \in DOMAIN cache /\ k \notin DOMAIN c1
                                  /\ is_locked(cache[k]))]
       /\ UNCHANGED <<now, holding, stepVars, sweepVars, bridgeVars,
                      popVars, codecVars>>

\* the wall clock is set: forwards or backwards
ClockSet(t) ==
    /\ t # now
    /\ now' = t
    /\ UNCHANGED <<cache, holding, ev, kev, evicted_held>>
    /\ UNCHANGED <<stepVars, sweepVars, bridgeVars, popVars, codecVars>>

\* the task that calls try_lock and unlock under the wall clock
WallTask == "t1"

WallNext ==
    \/ \E tr \in LockTriples : TryLock(WallTask, tr[1], tr[2], tr[3])
    \/ \E tr \in LockTriples : Unlock(WallTask, tr[1], tr[2], tr[3])
    \/ \E th \in {0, MaxThreshold}, build \in Builds :
         \E reads \in [DOMAIN cache -> 0..MaxTime], done \in SUBSET DOMAIN cache :
             CleanWall(th, reads, build, done)
    \/ \E t \in 0..MaxTime : ClockSet(t)

----------------------------------------------------------------------------
(* EscapeBridge *)

\* mix_all::MASTER_ID
MASTER_ID == 0

\* broker ids run 0..MaxBrokerId
MaxBrokerId == 2

BrokerConfigs ==
    [broker_id : 0..MaxBrokerId,
     enable_slave_acting_master : BOOLEAN,
     enable_remote_escape : BOOLEAN]

\* BrokerConfig::default()
DefaultBrokerConfig ==
    [broker_id |-> MASTER_ID, enable_slave_acting_master |-> FALSE,
     enable_remote_escape |-> FALSE]

PutMessageStatuses ==
    {"PutOk", "ServiceNotAvailable", "FlushDiskTimeout", "FlushSlaveTimeout",
     "SlaveNotAvailable", "PutToRemoteBrokerFail"}

SendStatuses ==
    {"SendOk", "FlushDiskTimeout", "FlushSlaveTimeout", "SlaveNotAvailable"}

\* PutMessageResult::new(status, None, remote)
PutMessageResult_new(status, remote) ==
    [put_message_status |-> status, remote_put |-> remote]

\* PutMessageResult::new_default(status)
PutMessageResult_new_default(status) == PutMessageResult_new(status, FALSE)

PutMessageResults ==
    {PutMessageResult_new(st, r) : st \in PutMessageStatuses, r \in BOOLEAN}

\* Option<SendResult>
NoSendResult == [is_some |-> FALSE, send_status |-> "None"]

SomeSendResult(st) == [is_some |-> TRUE, send_status |-> st]

OptionSendResults ==
    {NoSendResult} \cup {SomeSendResult(st) : st \in SendStatuses}

\* the messages put: a body and the wait_store_msg_ok flag
Messages == [body : {"m1", "m2"}, wait_store_msg_ok : BOOLEAN]

set_wait_store_msg_ok(m, b) == [m EXCEPT !.wait_store_msg_ok = b]

\* how a call ends
Returned(result) == [kind |-> "returned", result |-> result]

Panicked ==
    [kind |-> "panicked", result |-> PutMessageResult_new("None", FALSE)]

\* put_message_to_remote_broker as written: unimplemented!()
put_message_to_remote_broker == [kind |-> "panic", value |-> NoSendResult]

\* the remote forward once a send is plugged in: it answers some
\* Option<SendResult>
RemoteForwardAnswers ==
    {[kind |-> "ret", value |-> o] : o \in OptionSendResults}

\* the mapping with the two flush timeouts exchanged
transform_swapped_timeouts(send_result) ==
    IF ~send_result.is_some
    THEN PutMessageResult_new("PutToRemoteBrokerFail", TRUE)
    ELSE CASE send_result.send_status = "SendOk" ->
                PutMessageResult_new("PutOk", TRUE)
           [] send_result.send_status = "FlushDiskTimeout" ->
                PutMessageResult_new("FlushSlaveTimeout", TRUE)
           [] send_result.send_status = "FlushSlaveTimeout" ->
                PutMessageResult_new("FlushDiskTimeout", TRUE)
           [] send_result.send_status = "SlaveNotAvailable" ->
                PutMessageResult_new("SlaveNotAvailable", TRUE)

\* the mapping with the absent outcome built by new_default
transform_default_on_none(send_result) ==
    IF ~send_result.is_some
    THEN PutMessageResult_new_default("PutToRemoteBrokerFail")
    ELSE PutMessageResult_new(
             IF send_result.send_status = "SendOk" THEN "PutOk"
             ELSE send_result.send_status, TRUE)

transform_send_result2put_result(send_result) ==
    IF ~send_result.is_some
    THEN PutMessageResult_new("PutToRemoteBrokerFail", TRUE)
    ELSE CASE send_result.send_status = "SendOk" ->
                PutMessageResult_new("PutOk", TRUE)
           [] send_result.send_status = "FlushDiskTimeout" ->
                PutMessageResult_new("FlushDiskTimeout", TRUE)
           [] send_result.send_status = "FlushSlaveTimeout" ->
                PutMessageResult_new("FlushSlaveTimeout", TRUE)
           [] send_result.send_status = "SlaveNotAvailable" ->
                PutMessageResult_new("SlaveNotAvailable", TRUE)

\* put_message that tests the escape flags before the broker id
put_message_escape_first(cfg, message_ext, store_answer, forward) ==
    IF cfg.enable_slave_acting_master /\ cfg.enable_remote_escape
    THEN [outcome |-> IF forward.kind = "panic" THEN Panicked
                      ELSE Returned(
                               transform_send_result2put_result(forward.value)),
          store_log |-> <<>>,
          remote_log |-> <<[msg |-> set_wait_store_msg_ok(message_ext, FALSE),
                            broker_name_to_send |-> "None",
                            answer |-> forward]>>]
    ELSE IF cfg.broker_id = MASTER_ID
    THEN [outcome |-> Returned(store_answer),
          store_log |-> <<[msg |-> message_ext, answer |-> store_answer]>>,
          remote_log |-> <<>>]
    ELSE [outcome |->
              Returned(PutMessageResult_new_default("ServiceNotAvailable")),
          store_log |-> <<>>,
          remote_log |-> <<>>]

\* put_message with || for && between the two flags
put_message_either_flag(cfg, message_ext, store_answer, forward) ==
    IF cfg.broker_id = MASTER_ID
    THEN [outcome |-> Returned(store_answer),
          store_log |-> <<[msg |-> message_ext, answer |-> store_answer]>>,
          remote_log |-> <<>>]
    ELSE IF cfg.enable_slave_acting_master \/ cfg.enable_remote_escape
    THEN [outcome |-> IF forward.kind = "panic" THEN Panicked
                      ELSE Returned(
                               transform_send_result2put_result(forward.value)),
          store_log |-> <<>>,
          remote_log |-> <<[msg |-> set_wait_store_msg_ok(message_ext, FALSE),
                            broker_name_to_send |-> "None",
                            answer |-> forward]>>]
    ELSE [outcome |->
              Returned(PutMessageResult_new_default("ServiceNotAvailable")),
          store_log |-> <<>>,
          remote_log |-> <<>>]

\* put_message: store_answer is what message_store.put_message returns when
\* asked, forward is how put_message_to_remote_broker ends when called.  The
\* logs list the calls made to the two collaborators.
put_message(cfg, message_ext, store_answer, forward) ==
    IF cfg.broker_id = MASTER_ID
    THEN [outcome |-> Returned(store_answer),
          store_log |-> <<[msg |-> message_ext, answer |-> store_answer]>>,
          remote_log |-> <<>>]
    ELSE IF cfg.enable_slave_acting_master /\ cfg.enable_remote_escape
    THEN [outcome |-> IF forward.kind = "panic" THEN Panicked
                      ELSE Returned(
                               transform_send_result2put_result(forward.value)),
          store_log |-> <<>>,
          remote_log |-> <<[msg |-> set_wait_store_msg_ok(message_ext, FALSE),
                            broker_name_to_send |-> "None",
                            answer |-> forward]>>]
    ELSE [outcome |->
              Returned(PutMessageResult_new_default("ServiceNotAvailable")),
          store_log |-> <<>>,
          remote_log |-> <<>>]

NoPut == [called |-> FALSE,
          message_ext |-> [body |-> "m1", wait_store_msg_ok |-> TRUE],
          outcome |-> Panicked, store_log |-> <<>>, remote_log |-> <<>>]

BridgeInit ==
    /\ broker_config \in BrokerConfigs
    /\ put = NoPut

RecordPut(message_ext, r) ==
    put' = [called |-> TRUE, message_ext |-> message_ext, outcome |-> r.outcome,
            store_log |-> r.store_log, remote_log |-> r.remote_log]

\* EscapeBridge::put_message with the remote forward of the source
PutMessage(message_ext, store_answer) ==
    /\ RecordPut(message_ext,
                 put_message(broker_config, message_ext, store_answer,
                             put_message_to_remote_broker))
    /\ UNCHANGED <<broker_config, lockVars, popVars, codecVars>>

\* EscapeBridge::put_message with a remote forward that answers
PutMessageForwarded(message_ext, store_answer, forward) ==
    /\ RecordPut(message_ext,
                 put_message(broker_config, message_ext, store_answer, forward))
    /\ UNCHANGED <<broker_config, lockVars, popVars, codecVars>>

BridgeNext ==
    \/ \E m \in Messages, sa \in PutMessageResults : PutMessage(m, sa)
    \/ \E m \in Messages, sa \in PutMessageResults, f \in RemoteForwardAnswers :
         PutMessageForwarded(m, sa, f)

----------------------------------------------------------------------------
(* PopMessageProcessor: process_request and queue_lock_manager *)

RequestCodes ==
    {"PopMessage", "AckMessage", "BatchAckMessage",
     "ChangeMessageInvisibleTime", "Notification"}

\* how a call can end, and what it did with the lease and the store meanwhile
NoPop == [op |-> "none", code |-> "none", key |-> NoKey, end |-> "none",
          acquired |-> FALSE, released |-> FALSE, store_touched |-> FALSE]

PopInit == pop = [t \in Tasks |-> NoPop]

\* process_request: unimplemented!()
process_request(request_code, key) ==
    [op |-> "process_request", code |-> request_code, key |-> key,
     end |-> "panicked", acquired |-> FALSE, released |-> FALSE,
     store_touched |-> FALSE]

\* queue_lock_manager: unimplemented!()
queue_lock_manager ==
    [op |-> "queue_lock_manager", code |-> "none", key |-> NoKey,
     end |-> "panicked", acquired |-> FALSE, released |-> FALSE,
     store_touched |-> FALSE]

ProcessRequest(t, request_code, key) ==
    /\ pop' = [pop EXCEPT ![t] = process_request(request_code, key)]
    /\ UNCHANGED <<lockVars, bridgeVars, codecVars>>

QueueLockManagerOf(t) ==
    /\ pop' = [pop EXCEPT ![t] = queue_lock_manager]
    /\ UNCHANGED <<lockVars, bridgeVars, codecVars>>

PopNext ==
    \/ \E t \in Tasks, rc \in RequestCodes, k \in Keys :
         ProcessRequest(t, rc, k)
    \/ \E t \in Tasks : QueueLockManagerOf(t)

----------------------------------------------------------------------------
(* The correlation-id builders *)

\* PopAckConstants::ACK_TAG, BATCH_ACK_TAG, CK_TAG
ACK_TAG == <<"a", "c", "k">>

BATCH_ACK_TAG == <<"b", "A", "c", "k">>

CK_TAG == <<"c", "k">>

\* "{:?}" of a Vec<i64>: "[1, 2, 3]", "[]" when empty
RECURSIVE DebugItems(_)
DebugItems(list) ==
    IF Len(list) = 0 THEN <<>>
    ELSE IF Len(list) = 1 THEN Display(list[1])
    ELSE Display(list[1]) \o <<",", " ">> \o DebugItems(Tail(list))

DebugVec(list) == <<"[">> \o DebugItems(list) \o <<"]">>

\* Option<CheetahString>
NoName == [is_some |-> FALSE, value |-> <<>>]

SomeName(n) == [is_some |-> TRUE, value |-> n]

\* broker_name.as_ref().map_or("null".to_string(), |x| x.to_string())
NameOrNull(o) == IF o.is_some THEN o.value ELSE <<"n", "u", "l", "l">>

\* the ack id with no SPLIT between queue_id and ack_offset
gen_ack_unique_id_unsplit(ack_msg) ==
    ack_msg.topic \o SPLIT \o Display(ack_msg.queue_id)
    \o Display(ack_msg.ack_offset) \o SPLIT \o ack_msg.consumer_group \o SPLIT
    \o Display(ack_msg.pop_time) \o SPLIT \o ack_msg.broker_name \o SPLIT
    \o ACK_TAG

gen_ack_unique_id(ack_msg) ==
    ack_msg.topic \o SPLIT \o Display(ack_msg.queue_id) \o SPLIT
    \o Display(ack_msg.ack_offset) \o SPLIT \o ack_msg.consumer_group \o SPLIT
    \o Display(ack_msg.pop_time) \o SPLIT \o ack_msg.broker_name \o SPLIT
    \o ACK_TAG

\* the batch id with the offsets joined by "," alone
RECURSIVE CompactItems(_)
CompactItems(list) ==
    IF Len(list) = 0 THEN <<>>
    ELSE IF Len(list) = 1 THEN Display(list[1])
    ELSE Display(list[1]) \o <<",">> \o CompactItems(Tail(list))

gen_batch_ack_unique_id_compact(batch_ack_msg) ==
    batch_ack_msg.ack_msg.topic \o SPLIT
    \o Display(batch_ack_msg.ack_msg.queue_id) \o SPLIT
    \o <<"[">> \o CompactItems(batch_ack_msg.ack_offset_list) \o <<"]">>
    \o SPLIT
    \o batch_ack_msg.ack_msg.consumer_group \o SPLIT
    \o Display(batch_ack_msg.ack_msg.pop_time) \o SPLIT
    \o BATCH_ACK_TAG

gen_batch_ack_unique_id(batch_ack_msg) ==
    batch_ack_msg.ack_msg.topic \o SPLIT
    \o Display(batch_ack_msg.ack_msg.queue_id) \o SPLIT
    \o DebugVec(batch_ack_msg.ack_offset_list) \o SPLIT
    \o batch_ack_msg.ack_msg.consumer_group \o SPLIT
    \o Display(batch_ack_msg.ack_msg.pop_time) \o SPLIT
    \o BATCH_ACK_TAG

gen_ck_unique_id(ck) ==
    ck.topic \o SPLIT \o Display(ck.queue_id) \o SPLIT
    \o Display(ck.start_offset) \o SPLIT \o ck.cid \o SPLIT
    \o Display(ck.pop_time) \o SPLIT \o NameOrNull(ck.broker_name) \o SPLIT
    \o CK_TAG

Str_test_topic ==
    <<"t", "e", "s", "t", "_", "t", "o", "p", "i", "c">>

Str_test_group ==
    <<"t", "e", "s", "t", "_", "g", "r", "o", "u", "p">>

Str_test_broker ==
    <<"t", "e", "s", "t", "_", "b", "r", "o", "k", "e", "r">>

Str_test_cid ==
    <<"t", "e", "s", "t", "_", "c", "i", "d">>

Str_tp == <<"t", "p">>

Str_b == <<"b">>

\* the records the builders are called with
AckMsgs ==
    [topic : {Str_test_topic, Str_tp}, queue_id : {1, -1},
     ack_offset : {123, 0}, start_offset : {456},
     consumer_group : {Str_test_group}, pop_time : {789, 10},
     broker_name : {Str_test_broker, Str_b}]

BatchAckMsgs ==
    [ack_msg : [topic : {Str_test_topic, Str_tp}, queue_id : {1, -1},
                ack_offset : {123}, start_offset : {456},
                consumer_group : {Str_test_group}, pop_time : {789, 10},
                broker_name : {Str_test_broker}],
     ack_offset_list : {<<>>, <<1, 2, 3>>, <<-5, 40>>}]

PopCheckPoints ==
    [topic : {Str_test_topic, Str_tp}, queue_id : {1, -1},
     start_offset : {456, 0},
     cid : {Str_test_cid}, pop_time : {789},
     broker_name : {NoName, SomeName(Str_test_broker)}]

NoId == [called |-> FALSE, out |-> <<>>]

NoPair == [kind |-> "none", a |-> <<>>, b |-> <<>>, out_a |-> <<>>,
           out_b |-> <<>>, shared |-> FALSE, done |-> FALSE]

CodecInit ==
    /\ ack_id = NoId
    /\ batch_ack_id = NoId
    /\ ck_id = NoId
    /\ pair = NoPair

GenAckUniqueId(ack_msg) ==
    /\ ack_id' = [called |-> TRUE, arg |-> ack_msg,
                  out |-> gen_ack_unique_id(ack_msg)]
    /\ UNCHANGED <<batch_ack_id, ck_id, pair, lockVars, bridgeVars, popVars>>

GenBatchAckUniqueId(batch_ack_msg) ==
    /\ batch_ack_id' = [called |-> TRUE, arg |-> batch_ack_msg,
                        out |-> gen_batch_ack_unique_id(batch_ack_msg)]
    /\ UNCHANGED <<ack_id, ck_id, pair, lockVars, bridgeVars, popVars>>

GenCkUniqueId(ck) ==
    /\ ck_id' = [called |-> TRUE, arg |-> ck, out |-> gen_ck_unique_id(ck)]
    /\ UNCHANGED <<ack_id, batch_ack_id, pair, lockVars, bridgeVars, popVars>>

CodecNext ==
    \/ \E m \in AckMsgs : GenAckUniqueId(m)
    \/ \E m \in BatchAckMsgs : GenBatchAckUniqueId(m)
    \/ \E ck \in PopCheckPoints : GenCkUniqueId(ck)

----------------------------------------------------------------------------
(* Two calls of one builder *)

Str_tp_at_1 == <<"t", "p", "@", "1">>

Str_g == <<"g">>

Str_0_at_g == <<"0", "@", "g">>

Str_c == <<"c">>

Str_null == <<"n", "u", "l", "l">>

\* the records two calls in a row are made with: names with and without the
\* delimiter, numbers whose digits run together when the delimiter is left
\* out, and fields no builder reads
PairAckMsgs ==
    [topic : {Str_tp, Str_tp_at_1}, queue_id : {1, 12},
     ack_offset : {0, 1, 23, 3}, start_offset : {456, 0},
     consumer_group : {Str_g, Str_0_at_g}, pop_time : {789},
     broker_name : {Str_b}]

PairBatchAckMsgs ==
    [ack_msg : [topic : {Str_tp}, queue_id : {1, 12},
                ack_offset : {123, 0}, start_offset : {456},
                consumer_group : {Str_g}, pop_time : {789, 10},
                broker_name : {Str_b}],
     ack_offset_list : {<<>>, <<1, 2>>, <<12>>, <<2, 1>>}]

PairCheckPoints ==
    [topic : {Str_tp}, queue_id : {1, 12}, start_offset : {3, 23},
     cid : {Str_c}, pop_time : {789}, invisible_time : {0, 60000},
     broker_name : {NoName, SomeName(Str_null), SomeName(Str_b)}]

\* two calls in a row still to be made: the builder and its two arguments
Pending(kind, args) ==
    {[kind |-> kind, a |-> a, b |-> b, out_a |-> <<>>, out_b |-> <<>>,
      shared |-> FALSE, done |-> FALSE] : a \in args, b \in args}

GenAckUniqueIdTwice ==
    /\ pair.kind = "ack" /\ ~pair.done
    /\ pair' = [pair EXCEPT !.out_a = gen_ack_unique_id(pair.a),
                            !.out_b = gen_ack_unique_id(pair.b),
                            !.done = TRUE]
    /\ UNCHANGED <<ack_id, batch_ack_id, ck_id, lockVars, bridgeVars, popVars>>

GenBatchAckUniqueIdTwice ==
    /\ pair.kind = "batch" /\ ~pair.done
    /\ pair' = [pair EXCEPT !.out_a = gen_batch_ack_unique_id(pair.a),
                            !.out_b = gen_batch_ack_unique_id(pair.b),
                            !.done = TRUE]
    /\ UNCHANGED <<ack_id, batch_ack_id, ck_id, lockVars, bridgeVars, popVars>>

GenCkUniqueIdTwice ==
    /\ pair.kind = "ck" /\ ~pair.done
    /\ pair' = [pair EXCEPT !.out_a = gen_ck_unique_id(pair.a),
                            !.out_b = gen_ck_unique_id(pair.b),
                            !.done = TRUE]
    /\ UNCHANGED <<ack_id, batch_ack_id, ck_id, lockVars, bridgeVars, popVars>>

Str_tp_at_g == <<"t", "p", "@", "g">>

Str_g1 == <<"g", "1">>

Str_g_at_g == <<"g", "@", "g">>

\* the (topic, consumer_group, queue_id) triples two keys are built from
PairTriples ==
    [topic : {Str_test_topic, Str_tp, Str_tp_at_g},
     consumer_group : {Str_test_group, Str_g, Str_g1, Str_g_at_g},
     queue_id : {1, 11, -1}]

\* build_lock_key for a and for b, then, on a QueueLockManager::new(),
\* try_lock(a) followed by try_lock(b): shared tells that the second was
\* refused
BuildLockKeyTwice ==
    LET key_a == build_lock_key(pair.a.topic, pair.a.consumer_group,
                                pair.a.queue_id)
        key_b == build_lock_key(pair.b.topic, pair.b.consumer_group,
                                pair.b.queue_id)
        first == try_lock_with_key(EmptyCache, key_a, now)
        second == try_lock_with_key(first.cache, key_b, now)
    IN /\ pair.kind = "lock_key" /\ ~pair.done
       /\ pair' = [pair EXCEPT !.out_a = key_a, !.out_b = key_b,
                               !.shared = ~second.ok, !.done = TRUE]
       /\ UNCHANGED <<ack_id, batch_ack_id, ck_id, lockVars, bridgeVars,
                      popVars>>

PairInit ==
    /\ ack_id = NoId
    /\ batch_ack_id = NoId
    /\ ck_id = NoId
    /\ pair \in Pending("ack", PairAckMsgs)
                 \cup Pending("batch", PairBatchAckMsgs)
                 \cup Pending("ck", PairCheckPoints)
                 \cup Pending("lock_key", PairTriples)

PairNext ==
    \/ GenAckUniqueIdTwice
    \/ GenBatchAckUniqueIdTwice
    \/ GenCkUniqueIdTwice
    \/ BuildLockKeyTwice

----------------------------------------------------------------------------
(* Specifications *)

\* the state after construction, the broker configuration left at its default
BridgeIdle ==
    /\ broker_config = DefaultBrokerConfig
    /\ put = NoPut
Init == LockInit /\ BridgeIdle /\ PopInit /\ CodecInit

\* the QueueLockManager under any use of its interface
Next == LockNext

Spec == Init /\ [][Next]_vars

\* the callers of Pop Dispatch: a task unlocks only a key it is in flight on
UnlockHeld(t, topic, consumer_group, queue_id) ==
    /\ <<t, build_lock_key(topic, consumer_group, queue_id)>> \in holding
    /\ Unlock(t, topic, consumer_group, queue_id)

LockNextDisciplined ==
    \/ \E t \in Tasks, tr \in LockTriples : TryLock(t, tr[1], tr[2], tr[3])
    \/ \E t \in Tasks, tr \in LockTriples : UnlockHeld(t, tr[1], tr[2], tr[3])
    \/ \E th \in 0..MaxThreshold :
         \E reads \in [DOMAIN cache -> now..MaxTime] : Clean(th, reads)
    \/ Tick

NextDisciplined == LockNextDisciplined

SpecDisciplined == Init /\ [][NextDisciplined]_vars

\* the EscapeBridge of a broker of any configuration
InitBridge == LockInit /\ BridgeInit /\ PopInit /\ CodecInit

NextBridge == BridgeNext

SpecBridge == InitBridge /\ [][NextBridge]_vars

\* the request handlers of PopMessageProcessor
NextPop == PopNext

SpecPop == Init /\ [][NextPop]_vars

\* the correlation-id builders
NextCodec == CodecNext

SpecCodec == Init /\ [][NextCodec]_vars

\* the QueueLockManager calls step by step, the registry mutex in view
NextMutex == MutexNext

SpecMutex == Init /\ [][NextMutex]_vars

\* two tasks under a fair scheduler: tokio's Mutex hands the lock over in
\* the order of the lock() calls, and a task that has the guard runs on to
\* the end of its call; nothing makes a task start a call
MutexFairness ==
    /\ \A t \in Tasks : SF_vars(AcquireMutex(t))
    /\ \A t \in Tasks : WF_vars(RunTryLock(t))
    /\ \A t \in Tasks : WF_vars(RunUnlock(t))
    /\ \A t \in Tasks :
         WF_vars(\E th \in 0..MaxThreshold :
                   \E reads \in [DOMAIN cache -> now..MaxTime] :
                      RunClean(t, th, reads))

NextMutexFair == MutexNextTasks

SpecMutexFair == Init /\ [][NextMutexFair]_vars /\ MutexFairness

\* the QueueLockManager with the task of start running
NextSweep == SweepNext

SpecSweep == Init /\ [][NextSweep]_vars

\* each builder called twice in a row, with any two arguments
InitPairs == LockInit /\ BridgeIdle /\ PopInit /\ PairInit

NextPairs == PairNext

SpecPairs == InitPairs /\ [][NextPairs]_vars

\* the QueueLockManager with a clock that can be set back
NextWall == WallNext

SpecWall == Init /\ [][NextWall]_vars

----------------------------------------------------------------------------
(* Claims about the QueueLockManager *)

InFlight(k) == {t \in Tasks : <<t, k>> \in holding}

\* C1: a try_lock(k) that follows a try_lock(k) that returned true, with no
\* unlock(k) and no clean_unused_locks in between, returns false; the first
\* try_lock(k) after an unlock(k) returns true.
C1_TryLockExcludes ==
    ev.op = "try_lock" =>
        /\ (ev.before \in {"lock_ok", "refused"} => ev.res = FALSE)
        /\ (ev.before = "unlock" => ev.res = TRUE)

\* C1 witness: a try_lock right after an unlock returned true while, on another
\* key, a try_lock right after a successful one was refused.
C1_Witness ==
    /\ ev.op = "try_lock" /\ ev.before = "unlock" /\ ev.res = TRUE
    /\ \E k \in Keys : k # ev.key /\ kev[k] = "refused"

\* C2 as stated: at most one task at a time is in flight on a key.
C2_AtMostOneInFlight == \A k \in Keys : Cardinality(InFlight(k)) <= 1

\* C2 amended: at most one task at a time is in flight on a key whose entry
\* no clean_unused_locks has removed while its lease was held.
C2_AtMostOneInFlightUnlessEvicted ==
    \A k \in Keys : ~evicted_held[k] => Cardinality(InFlight(k)) <= 1

\* C2 witness: a task is in flight on a key that was never evicted while
\* held, a sweep has kept the entry, and a second try_lock was just refused.
C2_Witness ==
    /\ ev.op = "try_lock" /\ ev.res = FALSE /\ ev.before = "other"
    /\ ~evicted_held[ev.key]
    /\ Cardinality(InFlight(ev.key)) = 1

\* C3: clean_unused_locks(threshold) removes exactly the entries for which
\* the clock value read minus lock_time exceeds the threshold, held or not,
\* and leaves every other entry as it was.
C3_CleanRemovesExpired ==
    ev.op = "clean" =>
        /\ DOMAIN cache \subseteq DOMAIN ev.pre
        /\ \A k \in DOMAIN ev.pre :
              /\ k \notin DOMAIN cache
                    <=> ev.reads[k] - ev.pre[k].lock_time > ev.th
              /\ k \in DOMAIN cache => cache[k] = ev.pre[k]

\* C3 witness: one sweep removed a held entry that was too old and kept an
\* entry whose age equalled the threshold.
C3_Witness ==
    /\ ev.op = "clean"
    /\ \E k \in DOMAIN ev.pre : k \notin DOMAIN cache /\ ev.pre[k].lock = TRUE
    /\ \E k \in DOMAIN cache : ev.reads[k] - ev.pre[k].lock_time = ev.th

----------------------------------------------------------------------------
(* Claims about the EscapeBridge *)

IsMaster == broker_config.broker_id = MASTER_ID

EscapeTaken ==
    /\ put.called
    /\ ~IsMaster
    /\ broker_config.enable_slave_acting_master
    /\ broker_config.enable_remote_escape

\* C4: on the master, put_message hands the message to the local store
\* exactly once, returns the store's result unchanged and never calls the
\* remote forward, whatever the two flags are.
C4_MasterPutsLocally ==
    (put.called /\ IsMaster) =>
        /\ Len(put.store_log) = 1
        /\ put.store_log[1].msg = put.message_ext
        /\ put.outcome = Returned(put.store_log[1].answer)
        /\ put.remote_log = <<>>

\* C4 witness: a master with both escape flags set returned what its store
\* answered, a flush timeout.
C4_Witness ==
    /\ put.called /\ IsMaster
    /\ broker_config.enable_slave_acting_master
    /\ broker_config.enable_remote_escape
    /\ Len(put.store_log) = 1
    /\ put.outcome = Returned(PutMessageResult_new("FlushDiskTimeout", FALSE))

\* C5: a broker that is not master and lacks one of the two flags answers
\* ServiceNotAvailable and calls neither the store nor the remote forward.
C5_NotEligibleRejects ==
    (/\ put.called
     /\ ~IsMaster
     /\ ~(/\ broker_config.enable_slave_acting_master
          /\ broker_config.enable_remote_escape)) =>
        /\ put.outcome.kind = "returned"
        /\ put.outcome.result.put_message_status = "ServiceNotAvailable"
        /\ put.store_log = <<>>
        /\ put.remote_log = <<>>

\* C5 witness: a slave acting as master with remote escape disabled
\* rejected a put.
C5_Witness ==
    /\ put.called /\ ~IsMaster
    /\ broker_config.enable_slave_acting_master
    /\ ~broker_config.enable_remote_escape
    /\ put.outcome.kind = "returned"
    /\ put.outcome.result.put_message_status = "ServiceNotAvailable"

\* the table of section 4.4
C6_Expected(o) ==
    IF ~o.is_some THEN "PutToRemoteBrokerFail"
    ELSE IF o.send_status = "SendOk" THEN "PutOk"
    ELSE o.send_status

C7_RemoteBranchReturns ==
    EscapeTaken => put.outcome.kind = "returned"

----------------------------------------------------------------------------
(* Claims about Pop Dispatch *)

\* C9: a process_request that has ended left by one of its exit paths
\* (success, empty result, error), acquired the lease of its key before it
\* touched the store, and released it.
C9_PopDispatchHoldsLease ==
    \A t \in Tasks :
        pop[t].op = "process_request" =>
            /\ pop[t].end \in {"success", "empty", "error"}
            /\ pop[t].acquired
            /\ pop[t].released

----------------------------------------------------------------------------
(* Claims about the correlation-id builders *)

RECURSIVE JoinAt(_)
JoinAt(fields) ==
    IF Len(fields) = 1 THEN fields[1]
    ELSE fields[1] \o <<"@">> \o JoinAt(Tail(fields))

RECURSIVE JoinComma(_)
JoinComma(items) ==
    IF Len(items) = 0 THEN <<>>
    ELSE IF Len(items) = 1 THEN items[1]
    ELSE items[1] \o <<",", " ">> \o JoinComma(Tail(items))

ListText(list) ==
    <<"[">> \o JoinComma([i \in 1..Len(list) |-> Display(list[i])]) \o <<"]">>

\* the records of the tests of pop_message_processor.rs
TestAckMsg ==
    [topic |-> Str_test_topic, queue_id |-> 1, ack_offset |-> 123,
     start_offset |-> 456, consumer_group |-> Str_test_group, pop_time |-> 789,
     broker_name |-> Str_test_broker]

TestBatchAckMsg == [ack_msg |-> TestAckMsg, ack_offset_list |-> <<1, 2, 3>>]

TestCheckPoint(broker_name) ==
    [topic |-> Str_test_topic, queue_id |-> 1, start_offset |-> 456,
     cid |-> Str_test_cid, pop_time |-> 789, broker_name |-> broker_name]

AckIdText ==
    <<"t", "e", "s", "t", "_", "t", "o", "p", "i", "c", "@", "1", "@", "1",
      "2", "3", "@", "t", "e", "s", "t", "_", "g", "r", "o", "u", "p", "@",
      "7", "8", "9", "@", "t", "e", "s", "t", "_", "b", "r", "o", "k", "e",
      "r", "@", "a", "c", "k">>

BatchAckIdText ==
    <<"t", "e", "s", "t", "_", "t", "o", "p", "i", "c", "@", "1", "@", "[",
      "1", ",", " ", "2", ",", " ", "3", "]", "@", "t", "e", "s", "t", "_",
      "g", "r", "o", "u", "p", "@", "7", "8", "9", "@", "b", "A", "c", "k">>

CkIdText ==
    <<"t", "e", "s", "t", "_", "t", "o", "p", "i", "c", "@", "1", "@", "4",
      "5", "6", "@", "t", "e", "s", "t", "_", "c", "i", "d", "@", "7", "8",
      "9", "@", "t", "e", "s", "t", "_", "b", "r", "o", "k", "e", "r", "@",
      "c", "k">>

CkIdNullText ==
    <<"t", "e", "s", "t", "_", "t", "o", "p", "i", "c", "@", "1", "@", "4",
      "5", "6", "@", "t", "e", "s", "t", "_", "c", "i", "d", "@", "7", "8",
      "9", "@", "n", "u", "l", "l", "@", "c", "k">>

\* C10: each builder returns its fields in the fixed order, joined by "@" and
\* ended by its tag; the offset list reads "[1, 2, 3]" and an absent broker
\* name reads null.
C10_IdFormats ==
    /\ ack_id.called =>
         /\ ack_id.out =
              JoinAt(<<ack_id.arg.topic, Display(ack_id.arg.queue_id),
                       Display(ack_id.arg.ack_offset),
                       ack_id.arg.consumer_group, Display(ack_id.arg.pop_time),
                       ack_id.arg.broker_name, <<"a", "c", "k">>>>)
         /\ ack_id.arg = TestAckMsg => ack_id.out = AckIdText
    /\ batch_ack_id.called =>
         /\ batch_ack_id.out =
              JoinAt(<<batch_ack_id.arg.ack_msg.topic,
                       Display(batch_ack_id.arg.ack_msg.queue_id),
                       ListText(batch_ack_id.arg.ack_offset_list),
                       batch_ack_id.arg.ack_msg.consumer_group,
                       Display(batch_ack_id.arg.ack_msg.pop_time),
                       <<"b", "A", "c", "k">>>>)
         /\ batch_ack_id.arg = TestBatchAckMsg =>
              batch_ack_id.out = BatchAckIdText
    /\ ck_id.called =>
         /\ ck_id.out =
              JoinAt(<<ck_id.arg.topic, Display(ck_id.arg.queue_id),
                       Display(ck_id.arg.start_offset), ck_id.arg.cid,
                       Display(ck_id.arg.pop_time),
                       IF ck_id.arg.broker_name.is_some
                       THEN ck_id.arg.broker_name.value
                       ELSE <<"n", "u", "l", "l">>,
                       <<"c", "k">>>>)
         /\ ck_id.arg = TestCheckPoint(SomeName(Str_test_broker)) =>
              ck_id.out = CkIdText
         /\ ck_id.arg = TestCheckPoint(NoName) => ck_id.out = CkIdNullText

\* C10 witness: the three builders were called with the records of the
\* tests, the checkpoint without a broker name, and returned the three
\* strings.
C10_Witness ==
    /\ ack_id.called /\ ack_id.arg = TestAckMsg /\ ack_id.out = AckIdText
    /\ batch_ack_id.called /\ batch_ack_id.arg = TestBatchAckMsg
    /\ batch_ack_id.out = BatchAckIdText
    /\ ck_id.called /\ ck_id.arg = TestCheckPoint(NoName)
    /\ ck_id.out = CkIdNullText

HasDelimiter(name) == \E i \in 1..Len(name) : name[i] = "@"

\* the names of a record: topic, group, consumer id, broker name
C11_Names(kind, r) ==
    IF kind = "ack" THEN {r.topic, r.consumer_group, r.broker_name}
    ELSE IF kind = "batch"
    THEN {r.ack_msg.topic, r.ack_msg.consumer_group, r.ack_msg.broker_name}
    ELSE IF kind = "ck"
    THEN {r.topic, r.cid}
         \cup (IF r.broker_name.is_some THEN {r.broker_name.value} ELSE {})
    ELSE {}

C11_NoDelimiter ==
    \A n \in C11_Names(pair.kind, pair.a) \cup C11_Names(pair.kind, pair.b) :
        ~HasDelimiter(n)

\* the fields a builder renders
C11_Rendered(kind, r) ==
    IF kind = "ack"
    THEN <<r.topic, r.queue_id, r.ack_offset, r.consumer_group, r.pop_time,
           r.broker_name>>
    ELSE IF kind = "batch"
    THEN <<r.ack_msg.topic, r.ack_msg.queue_id, r.ack_offset_list,
           r.ack_msg.consumer_group, r.ack_msg.pop_time>>
    ELSE <<r.topic, r.queue_id, r.start_offset, r.cid, r.pop_time,
           IF r.broker_name.is_some THEN r.broker_name.value
           ELSE <<"n", "u", "l", "l">>>>

\* C11 as stated: with no "@" in any name, identical records give identical
\* ids and two distinct records of one type never give the same id.
C11_DistinctRecordsDistinctIds ==
    (pair.kind \in {"ack", "batch", "ck"} /\ pair.done /\ C11_NoDelimiter) =>
        /\ pair.a = pair.b => pair.out_a = pair.out_b
        /\ pair.a # pair.b => pair.out_a # pair.out_b

\* C11 amended: with no "@" in any name, two records of one type give the
\* same id exactly when they agree on every field the builder renders, an
\* absent broker name of a checkpoint counting as the name null; records
\* that differ only in a field the builder does not read share their id.
C11_IdsTellRenderedFieldsApart ==
    (pair.kind \in {"ack", "batch", "ck"} /\ pair.done /\ C11_NoDelimiter) =>
        (pair.out_a = pair.out_b
            <=> C11_Rendered(pair.kind, pair.a) = C11_Rendered(pair.kind, pair.b))

\* C11 witness: two ack records without "@" whose queue_id and ack_offset
\* read 1, 23 and 12, 3 got different ids.
C11_Witness ==
    /\ pair.kind = "ack" /\ pair.done /\ C11_NoDelimiter
    /\ pair.a.queue_id = 1 /\ pair.a.ack_offset = 23
    /\ pair.b.queue_id = 12 /\ pair.b.ack_offset = 3
    /\ pair.a.topic = pair.b.topic
    /\ pair.out_a # pair.out_b

----------------------------------------------------------------------------
(* Claims about the key builder *)

LockKeyText ==
    <<"t", "e", "s", "t", "_", "t", "o", "p", "i", "c", "@", "t", "e", "s",
      "t", "_", "g", "r", "o", "u", "p", "@", "1">>

TestTriple ==
    [topic |-> Str_test_topic, consumer_group |-> Str_test_group,
     queue_id |-> 1]

C12_Key(tr) == JoinAt(<<tr.topic, tr.consumer_group, Display(tr.queue_id)>>)

\* C12: build_lock_key returns topic@group@queue_id, and two different
\* triples whose topics and groups hold no "@" get different keys, so that a
\* try_lock on the one does not refuse a try_lock on the other.
C12_LockKeyInjective ==
    (pair.kind = "lock_key" /\ pair.done) =>
        /\ pair.out_a = C12_Key(pair.a)
        /\ pair.out_b = C12_Key(pair.b)
        /\ pair.a = TestTriple => pair.out_a = LockKeyText
        /\ (/\ pair.a # pair.b
            /\ ~HasDelimiter(pair.a.topic)
            /\ ~HasDelimiter(pair.a.consumer_group)
            /\ ~HasDelimiter(pair.b.topic)
            /\ ~HasDelimiter(pair.b.consumer_group)) =>
                /\ pair.out_a # pair.out_b
                /\ ~pair.shared

\* C12 witness: the triples (tp, g1, 1) and (tp, g, 11), whose keys differ
\* only in the place of the second "@", were locked one after the other.
C12_Witness ==
    /\ pair.kind = "lock_key" /\ pair.done
    /\ pair.a = [topic |-> Str_tp, consumer_group |-> Str_g1, queue_id |-> 1]
    /\ pair.b = [topic |-> Str_tp, consumer_group |-> Str_g, queue_id |-> 11]
    /\ pair.out_a # pair.out_b
    /\ ~pair.shared

----------------------------------------------------------------------------
(* Claims about the registry mutex *)

\* task t leaves a try_lock that found the lease of its key held
RefusedStep(t) ==
    /\ pc[t] = "locked" /\ pc'[t] = "idle"
    /\ call[t].op = "try_lock"
    /\ ~Free(cache, call[t].key)

\* C13: the registry mutex is owned only by a task inside a try_lock, unlock
\* or clean_unused_locks call, never by a task that is between calls with a
\* lease in hand; a try_lock that finds the lease held returns false and
\* changes nothing; and, the mutex being fair, every try_lock that waits for
\* the mutex returns, whether or not the holder of the lease ever releases.
C13_TryLockNeverWaitsForHolder ==
    /\ [](mutex # "free" => pc[mutex] = "locked")
    /\ [][\A t \in Callers :
            RefusedStep(t) =>
                /\ cache' = cache
                /\ holding' = holding
                /\ burst'[call[t].key].losses
                       = burst[call[t].key].losses + 1]_vars
    /\ \A t \in Callers :
          (pc[t] = "waiting" /\ call[t].op = "try_lock") ~> (pc[t] = "idle")

\* C13 witness: a task is between calls with the lease in hand, the mutex is
\* free, and two try_locks on the key, one of which waited for the mutex
\* together with the holder's, have returned false.
C13_Witness ==
    \E t \in Callers, k \in Keys :
        /\ <<t, k>> \in holding /\ pc[t] = "idle"
        /\ k \in DOMAIN cache /\ is_locked(cache[k])
        /\ mutex = "free"
        /\ burst[k].wins = 1 /\ burst[k].losses = 2 /\ burst[k].overlap
        /\ \A u \in Callers : pc[u] = "idle"

\* C20: after a pass of the sweeper, the size it logged, which is what
\* clean_unused_locks returned, is the number of entries the registry holds
\* once the pass has removed the expired ones.
C20_ReportedSizeIsSizeAfterPass ==
    ev.op = "clean" => sweeper.logged = Cardinality(DOMAIN cache)

----------------------------------------------------------------------------
(* Claims about single calls of the QueueLockManager *)

\* the step is a try_lock / an unlock of key by some task
TryLockStep(key) ==
    \E t \in Tasks, tr \in LockTriples :
        /\ build_lock_key(tr[1], tr[2], tr[3]) = key
        /\ TryLock(t, tr[1], tr[2], tr[3])

UnlockStep(key) ==
    \E t \in Tasks, tr \in LockTriples :
        /\ build_lock_key(tr[1], tr[2], tr[3]) = key
        /\ Unlock(t, tr[1], tr[2], tr[3])

\* C17: of the try_lock calls on one key that run, in whatever order the
\* mutex lets them in, from a state in which the lease is free and with no
\* unlock of the key and no clean_unused_locks in between, exactly one
\* returns true and every other returns false.
C17_ExactlyOneWinner ==
    \A k \in Keys :
        (burst[k].free /\ burst[k].wins + burst[k].losses >= 1) =>
            burst[k].wins = 1

\* C17 witness: three try_locks on a free key have returned, one of which ran
\* while another waited for the mutex: one true, two false.
C17_Witness ==
    \E k \in Keys :
        /\ burst[k].free /\ burst[k].overlap
        /\ burst[k].wins = 1 /\ burst[k].losses = 2
        /\ InFlight(k) # {}
        /\ \A t \in Callers : pc[t] = "idle"

\* C14: an unlock of a key that has no entry, or whose lease is not held,
\* leaves the registry as it was: no entry appears or disappears, no held
\* flag and no lock_time changes; and after any unlock a second unlock of
\* the key would change nothing.
C14_UnlockOfFreeKeyChangesNothing ==
    [][\A key \in Keys :
          UnlockStep(key) =>
              /\ Free(cache, key) => cache' = cache
              /\ unlock_with_key(cache', key) = cache']_vars

\* C14 witness: a key was unlocked twice in a row; its lease is unheld and
\* keeps an earlier lock_time, and the lease of the other key is still held.
C14_Witness ==
    /\ ev.op = "unlock" /\ ev.before = "unlock"
    /\ ev.key \in DOMAIN cache
    /\ ~is_locked(cache[ev.key])
    /\ get_lock_time(cache[ev.key]) < now
    /\ \E k \in DOMAIN cache : k # ev.key /\ is_locked(cache[k])

----------------------------------------------------------------------------
(* Claims about the task of start *)

\* C15 as stated: a lease that is acquired and never released is evicted by
\* the first pass of the sweeper that follows the acquisition, so no held
\* lease outlasts a pass.
C15_FirstSweepEvicts == \A k \in Keys : survived[k] = 0

\* C15 amended: a pass of the sweeper evicts exactly the entries for which it
\* reads a clock value more than 60000 ms after lock_time, and a try_lock on
\* an evicted key then returns true; a lease that is held and not released
\* stays held through every pass that retains it, and outlasts at most two
\* passes.
C15_SweepEvictsAfterThreshold ==
    /\ ev.op = "clean" =>
          \A k \in DOMAIN ev.pre :
              /\ k \notin DOMAIN cache
                    <=> ev.reads[k] - get_lock_time(ev.pre[k])
                            > SWEEP_EXPIRE_MILLIS
              /\ k \notin DOMAIN cache => try_lock_with_key(cache, k, now).ok
    /\ \A k \in Keys :
          /\ survived[k] <= 2
          /\ (survived[k] >= 1 /\ k \in DOMAIN cache) => is_locked(cache[k])

\* C15 witness: a lease whose holder never released it outlasted one pass
\* and was evicted by the next.
C15_Witness ==
    /\ ev.op = "clean"
    /\ \E k \in DOMAIN ev.pre :
          /\ is_locked(ev.pre[k])
          /\ k \notin DOMAIN cache
          /\ survived[k] = 1
          /\ InFlight(k) # {}

\* C16: a try_lock on a key that has no entry puts a lease for it into the
\* registry, acquires it and returns true; the caller joins the tasks in
\* flight on the key, among them a holder whose lease was removed by
\* clean_unused_locks and who has not unlocked.
C16_TryLockOnAbsentKeyAcquires ==
    [][\A key \in Keys :
          (TryLockStep(key) /\ key \notin DOMAIN cache) =>
              /\ ev'.res = TRUE
              /\ key \in DOMAIN cache'
              /\ cache'[key] = [lock |-> TRUE, lock_time |-> now]
              /\ \E t \in Tasks : holding' = holding \cup {<<t, key>>}]_vars

\* C16 witness: the entry of a key was removed while its lease was held, the
\* holder has not unlocked, and a try_lock of the other task on the key has
\* returned true: both are in flight.
C16_Witness ==
    /\ ev.op = "try_lock" /\ ev.res = TRUE /\ ev.before = "other"
    /\ evicted_held[ev.key]
    /\ InFlight(ev.key) = Tasks
    /\ \A k \in Keys : k # ev.key => InFlight(k) = {}

\* C18: the lock_time of an entry that stays in the registry changes only in
\* a try_lock on its key that returns true and takes the lease from unheld
\* to held; a try_lock that returns false, an unlock and a
\* clean_unused_locks leave it as it was.
C18_LockTimeChangesOnlyOnAcquire ==
    [][\A k \in (DOMAIN cache) \cap (DOMAIN cache') :
          get_lock_time(cache'[k]) # get_lock_time(cache[k]) =>
              /\ TryLockStep(k)
              /\ ev'.res = TRUE
              /\ ~is_locked(cache[k])
              /\ is_locked(cache'[k])]_vars

\* C18 witness: a try_lock on a held key was refused for the second time in
\* a row, later than the lease was acquired, and lock_time is still the time
\* of the acquisition.
C18_Witness ==
    /\ ev.op = "try_lock" /\ ev.res = FALSE /\ ev.before = "refused"
    /\ is_locked(cache[ev.key])
    /\ get_lock_time(cache[ev.key]) < now

\* C19: an unlock of a key by a task that is not in flight on it sets the
\* lease of the key to unheld all the same, leaves the tasks in flight as
\* they were, and the next try_lock on the key returns true.
C19_UnlockChecksNoOwner ==
    [][\A t \in Tasks, tr \in LockTriples :
          LET key == build_lock_key(tr[1], tr[2], tr[3])
          IN (/\ Unlock(t, tr[1], tr[2], tr[3])
              /\ <<t, key>> \notin holding
              /\ key \in DOMAIN cache) =>
                  /\ ~is_locked(cache'[key])
                  /\ holding' = holding
                  /\ try_lock_with_key(cache', key, now').ok]_vars

\* C19 witness: both tasks are in flight on a key whose entry was never
\* removed while held: the last call on the key before the try_lock that just
\* returned true was an unlock, which the holder did not make.
C19_Witness ==
    /\ ev.op = "try_lock" /\ ev.res = TRUE /\ ev.before = "unlock"
    /\ ~evicted_held[ev.key]
    /\ InFlight(ev.key) = Tasks

\* the registries that differ from c in nothing but the entry of key k2:
\* no entry, or an entry in any state
OtherStates(c, k2) ==
    {[k \in (DOMAIN c) \ {k2} |-> c[k]]} \cup
    {[k \in (DOMAIN c) \cup {k2} |-> IF k = k2 THEN l ELSE c[k]] :
        l \in [lock : BOOLEAN, lock_time : 0..MaxTime]}

\* C21: a try_lock or an unlock of key k1 leaves the entry of every other
\* key k2 as it was: present or absent as before, with the same held flag and
\* the same lock_time; and the try_lock returns what it would return with
\* the entry of k2 absent or in any other state.
C21_KeysAreIndependent ==
    [][\A k1 \in Keys, k2 \in Keys :
          (k1 # k2 /\ (TryLockStep(k1) \/ UnlockStep(k1))) =>
              /\ (k2 \in DOMAIN cache') = (k2 \in DOMAIN cache)
              /\ k2 \in DOMAIN cache => cache'[k2] = cache[k2]
              /\ TryLockStep(k1) =>
                    \A c2 \in OtherStates(cache, k2) :
                        try_lock_with_key(c2, k1, now).ok = ev'.res]_vars

\* C21 witness: a try_lock on a key has returned true while the lease of the
\* other key is held by the other task since an earlier time.
C21_Witness ==
    /\ ev.op = "try_lock" /\ ev.res = TRUE
    /\ \E k2 \in Keys \ {ev.key} :
          /\ k2 \in DOMAIN cache
          /\ is_locked(cache[k2])
          /\ get_lock_time(cache[k2]) < get_lock_time(cache[ev.key])
          /\ InFlight(k2) # {} /\ InFlight(ev.key) # {}
          /\ InFlight(k2) \cap InFlight(ev.key) = {}


\* C22: in every clean_unused_locks, with a clock that may go backwards
\* between a try_lock and the sweep, the lock_time of every entry of the
\* registry is at most the clock value the retain closure reads for it, so
\* that the u64 subtraction get_current_millis() - lock_time does not
\* underflow.
C22_AgeNeverUnderflows ==
    ev.op = "clean" =>
        \A k \in DOMAIN ev.pre : ~Underflows(ev.pre[k], ev.reads[k])


====
